---- MODULE Spec2Model ----
(***************************************************************************)
(* State-machine model of the GraphSensor forward graph:                   *)
(*   models/modules/signal_segment_representation.py                       *)
(*   models/WISDM_baseline/ResNet32.py                                     *)
(*                                                                         *)
(* A tensor is a record [shape, data]: shape is the size tuple, data the   *)
(* elements in row-major (contiguous) order.  Indices are 0-based as in    *)
(* the source; data is a TLA+ sequence and therefore 1-based.              *)
(***************************************************************************)
EXTENDS Integers, Sequences, FiniteSets, TLC

\* pc       where the program is: "new", "constructed", "done", or "failed" /
\*          "raised" once a constructor / a forward pass has thrown
\* config   the arguments the constructor was called with
\* self     the module under construction or constructed
\* params   the learned parameters the forward pass reads
\* training nn.Module.training
\* x        the argument of forward
\* locals   local tensors of the forward pass that ran
\* out      the tensor forward returned
\* err      the exception thrown ("" when none)
VARIABLES pc, config, self, params, training, x, locals, out, err

vars == <<pc, config, self, params, training, x, locals, out, err>>

NoConfig == [class |-> "none"]
NoParams == [kind |-> "none"]
NoLocals == [kind |-> "none"]

NoTensor == [shape |-> <<>>, data |-> <<>>]
NoModule == [op |-> "none"]

(***************************************************************************)
(* Index arithmetic of contiguous tensors.                                 *)
(***************************************************************************)
RECURSIVE Prod(_)
Prod(s) == IF s = <<>> THEN 1 ELSE Head(s) * Prod(Tail(s))

RECURSIVE Ravel(_, _)
Ravel(idx, shape) ==
    IF idx = <<>> THEN 0
    ELSE Head(idx) * Prod(Tail(shape)) + Ravel(Tail(idx), Tail(shape))

Unravel(i, shape) ==
    [d \in 1..Len(shape) |->
        (i \div Prod(SubSeq(shape, d + 1, Len(shape)))) % shape[d]]

At(t, idx) == t.data[Ravel(idx, t.shape) + 1]

FloorDiv(a, b) ==
    IF b > 0 THEN a \div b ELSE (0 - a) \div (0 - b)

Max(a, b) == IF a >= b THEN a ELSE b

Abs(a) == IF a >= 0 THEN a ELSE 0 - a

\* The sequence q with its elements computed (a tensor owns its storage).
Eager(q) == q \o <<>>

(***************************************************************************)
(* torch tensor operations used by the forward passes.                     *)
(***************************************************************************)
\* f.unfold(x, kernel_size=(1, kw), stride=s) on x of shape (B, C, H, L):
\* (B, C*1*kw, nH*nW) with nH = (H-1) div s + 1 and nW = (L-kw) div s + 1.
UnfoldBlocks(size, k, s) == (size - k) \div s + 1

unfold(t, kw, s) ==
    LET B  == t.shape[1]
        C  == t.shape[2]
        H  == t.shape[3]
        L  == t.shape[4]
        nH == UnfoldBlocks(H, 1, s)
        nW == UnfoldBlocks(L, kw, s)
        sh == <<B, C * kw, nH * nW>>
    IN [shape |-> sh,
        data  |-> Eager([i \in 1..Prod(sh) |->
                     LET n == Unravel(i - 1, sh)
                     IN  At(t, <<n[1], n[2] \div kw, n[3] \div nW,
                                 (n[3] % nW) * s + (n[2] % kw)>>)])]

\* t.permute(*perm): axis d of the result is axis perm[d] (0-based) of t.
permute(t, perm) ==
    LET sh == [d \in 1..Len(perm) |-> t.shape[perm[d] + 1]]
    IN [shape |-> sh,
        data  |-> Eager([i \in 1..Prod(sh) |->
                     LET n == Unravel(i - 1, sh)
                         o == [e \in 1..Len(perm) |->
                                 n[CHOOSE d \in 1..Len(perm) : perm[d] + 1 = e]]
                     IN  At(t, o)])]

\* t.unsqueeze(dim) for 0 <= dim <= rank; a negative dim counts from rank + 1.
unsqueeze(t, dim) ==
    LET r == Len(t.shape)
        p == IF dim < 0 THEN dim + r + 1 ELSE dim
    IN [shape |-> SubSeq(t.shape, 1, p) \o <<1>> \o SubSeq(t.shape, p + 1, r),
        data  |-> t.data]

\* t.squeeze() without argument: every axis of size 1 is removed.
RECURSIVE DropOnes(_)
DropOnes(s) ==
    IF s = <<>> THEN <<>>
    ELSE IF Head(s) = 1 THEN DropOnes(Tail(s))
    ELSE <<Head(s)>> \o DropOnes(Tail(s))

squeeze(t) == [shape |-> DropOnes(t.shape), data |-> t.data]

\* t[:, -idx - 1, :]: the windows taken from the last one backwards.
select1_FromEnd(t, idx) ==
    LET sh == <<t.shape[1], t.shape[3]>>
    IN [shape |-> sh,
        data  |-> Eager([i \in 1..Prod(sh) |->
                     LET n == Unravel(i - 1, sh)
                     IN  At(t, <<n[1], t.shape[2] - 1 - idx, n[2]>>)])]

\* t[:, idx, :] on a 3-axis tensor.
select1(t, idx) ==
    LET sh == <<t.shape[1], t.shape[3]>>
    IN [shape |-> sh,
        data  |-> Eager([i \in 1..Prod(sh) |->
                     LET n == Unravel(i - 1, sh)
                     IN  At(t, <<n[1], idx, n[2]>>)])]

\* t.view(b, 1, -1): the last size is inferred from the element count.
view3(t, b) == [shape |-> <<b, 1, Prod(t.shape) \div b>>, data |-> t.data]

\* torch.cat(ts, dim=1) of 3-axis tensors that agree on axes 0 and 2.
RECURSIVE SumDim1(_)
SumDim1(ts) == IF ts = <<>> THEN 0 ELSE Head(ts).shape[2] + SumDim1(Tail(ts))

RECURSIVE Locate(_, _, _)
Locate(ts, j, n) ==
    IF j < Head(ts).shape[2] THEN <<n, j>>
    ELSE Locate(Tail(ts), j - Head(ts).shape[2], n + 1)

cat1(ts) ==
    LET sh == <<ts[1].shape[1], SumDim1(ts), ts[1].shape[3]>>
    IN [shape |-> sh,
        data  |-> Eager([i \in 1..Prod(sh) |->
                     LET n == Unravel(i - 1, sh)
                         w == Locate(ts, n[2], 1)
                     IN  At(ts[w[1]], <<n[1], w[2], n[3]>>)])]

(***************************************************************************)
(* Layers.  A layer is a record; nn.Sequential is a sequence of layers.    *)
(* nd is the number of spatial axes (1 for Conv1d, 2 for Conv2d).          *)
(***************************************************************************)
Conv(nd, cin, cout, k, s, p, bias) ==
    [op |-> "conv", nd |-> nd, cin |-> cin, cout |-> cout,
     k |-> k, s |-> s, p |-> p, bias |-> bias]
BatchNorm(nd, c) == [op |-> "bn", nd |-> nd, c |-> c]
MaxPool(nd, k, s, p) == [op |-> "maxpool", nd |-> nd, k |-> k, s |-> s, p |-> p]
GELU == [op |-> "gelu"]
ReLU == [op |-> "relu"]
Sigmoid == [op |-> "sigmoid"]
Linear(fin, fout) == [op |-> "linear", fin |-> fin, fout |-> fout]

Ok(shape) == [err |-> "", shape |-> shape]
Raise(e) == [err |-> e, shape |-> <<>>]

\* Output length of a convolution or pooling window along one axis.
\* The output length with ceil_mode=True.
WindowOut_CeilMode(size, k, s, p) == 0 - ((0 - (size + 2 * p - k)) \div s) + 1

WindowOut(size, k, s, p) == (size + 2 * p - k) \div s + 1

Spatial(shape) == SubSeq(shape, 3, Len(shape))

\* torch.nn.functional.batch_norm: in training mode an input with a single
\* value per channel is refused.
VerifyBatchSize(shape, tr) ==
    ~(tr /\ shape[1] * Prod(Spatial(shape)) = 1)

ConvShape(l, shape) ==
    IF Len(shape) # l.nd + 2 \/ shape[2] # l.cin
        \/ \E d \in 3..Len(shape) : shape[d] + 2 * l.p < l.k
    THEN Raise("RuntimeError")
    ELSE Ok(<<shape[1], l.cout>> \o
            [d \in 1..l.nd |-> WindowOut(shape[d + 2], l.k, l.s, l.p)])

BatchNormShape(l, shape, tr) ==
    IF Len(shape) # l.nd + 2 \/ shape[2] # l.c THEN Raise("RuntimeError")
    ELSE IF ~VerifyBatchSize(shape, tr) THEN Raise("ValueError")
    ELSE Ok(shape)

MaxPoolShape(l, shape) ==
    IF Len(shape) # l.nd + 2
        \/ \E d \in 3..Len(shape) : shape[d] + 2 * l.p < l.k
    THEN Raise("RuntimeError")
    ELSE Ok(<<shape[1], shape[2]>> \o
            [d \in 1..l.nd |-> WindowOut(shape[d + 2], l.k, l.s, l.p)])

LinearShape(l, shape) ==
    IF shape = <<>> \/ shape[Len(shape)] # l.fin THEN Raise("RuntimeError")
    ELSE Ok(SubSeq(shape, 1, Len(shape) - 1) \o <<l.fout>>)

\* a + b on shapes of equal rank: sizes agree or one of them is 1.
Broadcast(a, b) ==
    IF Len(a) # Len(b) \/ \E d \in 1..Len(a) : a[d] # b[d] /\ a[d] # 1 /\ b[d] # 1
    THEN Raise("RuntimeError")
    ELSE Ok([d \in 1..Len(a) |-> Max(a[d], b[d])])

\* a += b: b is broadcast to a, whose shape cannot change.
BroadcastInto(a, b) ==
    IF Broadcast(a, b).err # "" \/ Broadcast(a, b).shape # a
    THEN Raise("RuntimeError")
    ELSE Ok(a)

(***************************************************************************)
(* Constructors.  A constructor yields [err, m]: the exception it raises   *)
(* ("" when none) and the module it builds.                                *)
(***************************************************************************)
Built(m) == [err |-> "", m |-> m]
Failed(e) == [err |-> e, m |-> NoModule]

\* channel // reduction, evaluated while the layers of self.fc are built.
BottleneckWidth(channel, reduction) == FloorDiv(channel, reduction)

ResLayer_init(channel, reduction) ==
    IF reduction = 0 THEN Failed("ZeroDivisionError")
    ELSE IF BottleneckWidth(channel, reduction) < 0 THEN Failed("RuntimeError")
    ELSE Built([op |-> "ResLayer", channel |-> channel,
                fc |-> <<Linear(channel, BottleneckWidth(channel, reduction)),
                         GELU,
                         Linear(BottleneckWidth(channel, reduction), channel),
                         Sigmoid>>])

\* A constructor that refuses a channel count its reduction does not divide.
GNA_init_Validating(channel, reduction) ==
    IF reduction <= 0 \/ channel % Max(reduction, 1) # 0 THEN Failed("ValueError")
    ELSE Built([op |-> "GNA", channel |-> channel,
                fc |-> <<Conv(2, channel, channel \div reduction, 1, 1, 0, FALSE),
                         GELU,
                         Conv(2, channel \div reduction, channel, 1, 1, 0, FALSE),
                         Sigmoid>>])

GNA_init(channel, reduction) ==
    IF reduction = 0 THEN Failed("ZeroDivisionError")
    ELSE IF BottleneckWidth(channel, reduction) < 0 THEN Failed("RuntimeError")
    ELSE Built([op |-> "GNA", channel |-> channel,
                fc |-> <<Conv(2, channel, BottleneckWidth(channel, reduction),
                              1, 1, 0, FALSE),
                         GELU,
                         Conv(2, BottleneckWidth(channel, reduction), channel,
                              1, 1, 0, FALSE),
                         Sigmoid>>])

DefaultGateReduction == 2
DefaultBlockReduction == 4
Expansion == 1

\* nn.Conv1d(inplanes, planes, stride): the third positional parameter of
\* Conv1d is kernel_size, so conv1 has kernel size `stride` and stride 1.
ResBasicBlock_init(inplanes, planes, stride, downsample, reduction) ==
    [op |-> "ResBasicBlock",
     conv1 |-> Conv(1, inplanes, planes, stride, 1, 0, TRUE),
     bn1 |-> BatchNorm(1, planes),
     relu |-> GELU,
     conv2 |-> Conv(1, planes, planes, 1, 1, 0, TRUE),
     bn2 |-> BatchNorm(1, planes),
     reslayer |-> ResLayer_init(planes, reduction).m,
     downsample |-> downsample,
     stride |-> stride]

BasicBlock_init(in_planes, planes, stride, downsample) ==
    [op |-> "BasicBlock",
     conv1 |-> Conv(2, in_planes, planes, 3, stride, 1, FALSE),
     bn1 |-> BatchNorm(2, planes),
     relu |-> ReLU,
     conv2 |-> Conv(2, planes, planes, 3, 1, 1, FALSE),
     bn2 |-> BatchNorm(2, planes),
     downsample |-> downsample,
     stride |-> stride]

\* downsample is None (the empty Sequential here) or a 1x1 strided
\* convolution followed by a batch norm.
None == <<>>

\* SignalSegment2Vec._make_layer: [layers, inplanes] is the Sequential it
\* returns and the value it leaves in self.inplanes.
RECURSIVE MoreResBasicBlocks(_, _, _)
MoreResBasicBlocks(inplanes, planes, n) ==
    IF n <= 0 THEN <<>>
    ELSE <<ResBasicBlock_init(inplanes, planes, 1, None, DefaultBlockReduction)>>
         \o MoreResBasicBlocks(inplanes, planes, n - 1)

SignalSegment2Vec_make_layer(inplanes, planes, blocks, stride) ==
    LET downsample ==
            IF stride # 1 \/ inplanes # planes * Expansion
            THEN <<Conv(1, inplanes, planes * Expansion, 1, stride, 0, FALSE),
                   BatchNorm(1, planes * Expansion)>>
            ELSE None
    IN [layers |-> <<ResBasicBlock_init(inplanes, planes, stride, downsample,
                                        DefaultBlockReduction)>>
                   \o MoreResBasicBlocks(planes * Expansion, planes, blocks - 1),
        inplanes |-> planes * Expansion]

SignalSegment2Vec_init(afr_reduced_cnn_size) ==
    [op |-> "SignalSegment2Vec",
     features |-> <<Conv(1, 1, 64, 49, 6, 24, FALSE), BatchNorm(1, 64), GELU,
                    MaxPool(1, 7, 4, 3),
                    Conv(1, 64, 128, 7, 1, 3, FALSE), BatchNorm(1, 128), GELU,
                    Conv(1, 128, 128, 7, 1, 3, FALSE), BatchNorm(1, 128), GELU,
                    MaxPool(1, 3, 4, 1)>>,
     AFR |-> SignalSegment2Vec_make_layer(128, afr_reduced_cnn_size, 1, 1).layers,
     inplanes |-> SignalSegment2Vec_make_layer(128, afr_reduced_cnn_size, 1, 1).inplanes]

\* ResNet._make_layer: [layers, in_planes] is the Sequential it returns and
\* the value it leaves in self.in_planes.
RECURSIVE MoreBasicBlocks(_, _, _)
MoreBasicBlocks(in_planes, planes, n) ==
    IF n <= 0 THEN <<>>
    ELSE <<BasicBlock_init(in_planes, planes, 1, None)>>
         \o MoreBasicBlocks(in_planes, planes, n - 1)

\* _make_layer without the update of self.in_planes before the remaining
\* blocks are built.
ResNet_make_layer_StaleInPlanes(in_planes, planes, blocks, stride) ==
    LET downsample ==
            IF stride # 1 \/ in_planes # planes
            THEN <<Conv(2, in_planes, planes, 1, stride, 0, FALSE),
                   BatchNorm(2, planes)>>
            ELSE None
    IN [layers |-> <<BasicBlock_init(in_planes, planes, stride, downsample)>>
                   \o MoreBasicBlocks(in_planes, planes, blocks - 1),
        in_planes |-> planes]

ResNet_make_layer(in_planes, planes, blocks, stride) ==
    LET downsample ==
            IF stride # 1 \/ in_planes # planes
            THEN <<Conv(2, in_planes, planes, 1, stride, 0, FALSE),
                   BatchNorm(2, planes)>>
            ELSE None
    IN [layers |-> <<BasicBlock_init(in_planes, planes, stride, downsample)>>
                   \o MoreBasicBlocks(planes, planes, blocks - 1),
        in_planes |-> planes]

(***************************************************************************)
(* Forward passes on shapes: [err, shape] is the exception raised ("" when *)
(* none) and the size of the tensor returned.                              *)
(***************************************************************************)
RECURSIVE ShapeThrough(_, _, _)
RECURSIVE LayerShape(_, _, _)

\* ResLayer.forward / GNA.forward: `b, c, _ = x.size()` (`b, c, _, _`) fixes
\* the rank, the squeeze transform fixes the channel count.
GateShape(g, shape) ==
    IF Len(shape) # (IF g.op = "GNA" THEN 4 ELSE 3) THEN Raise("ValueError")
    ELSE IF shape[2] # g.channel THEN Raise("RuntimeError")
    ELSE Ok(shape)

\* ResBasicBlock.forward: main is the shape of `out` before the add,
\* residual that of the shortcut.
ResBasicBlock_branches(b, shape, tr) ==
    [main |-> ShapeThrough(<<b.conv1, b.bn1, b.relu, b.conv2, b.bn2, b.reslayer>>,
                           Ok(shape), tr),
     residual |-> IF b.downsample # None
                  THEN ShapeThrough(b.downsample, Ok(shape), tr)
                  ELSE Ok(shape)]

ResBasicBlock_shape(b, shape, tr) ==
    LET br == ResBasicBlock_branches(b, shape, tr)
    IN  IF br.main.err # "" THEN br.main
        ELSE IF br.residual.err # "" THEN br.residual
        ELSE BroadcastInto(br.main.shape, br.residual.shape)

BasicBlock_branches(b, shape, tr) ==
    [main |-> ShapeThrough(<<b.conv1, b.bn1, b.relu, b.conv2, b.bn2>>, Ok(shape), tr),
     residual |-> IF b.downsample # None
                  THEN ShapeThrough(b.downsample, Ok(shape), tr)
                  ELSE Ok(shape)]

BasicBlock_shape(b, shape, tr) ==
    LET br == BasicBlock_branches(b, shape, tr)
    IN  IF br.main.err # "" THEN br.main
        ELSE IF br.residual.err # "" THEN br.residual
        ELSE Broadcast(br.main.shape, br.residual.shape)

LayerShape(l, shape, tr) ==
    CASE l.op = "conv" -> ConvShape(l, shape)
      [] l.op = "bn" -> BatchNormShape(l, shape, tr)
      [] l.op = "maxpool" -> MaxPoolShape(l, shape)
      [] l.op = "linear" -> LinearShape(l, shape)
      [] l.op \in {"gelu", "relu", "sigmoid"} -> Ok(shape)
      [] l.op \in {"ResLayer", "GNA"} -> GateShape(l, shape)
      [] l.op = "ResBasicBlock" -> ResBasicBlock_shape(l, shape, tr)
      [] l.op = "BasicBlock" -> BasicBlock_shape(l, shape, tr)

\* nn.Sequential.forward
ShapeThrough(layers, r, tr) ==
    IF layers = <<>> \/ r.err # "" THEN r
    ELSE ShapeThrough(Tail(layers), LayerShape(Head(layers), r.shape, tr), tr)

SignalSegment2Vec_shape(enc, shape, tr) ==
    ShapeThrough(enc.features \o enc.AFR, Ok(shape), tr)

Returned(t) == [err |-> "", t |-> t]
Thrown(e) == [err |-> e, t |-> NoTensor]

(***************************************************************************)
(* Forward passes on values.  Numbers are held to two decimals: the        *)
(* integer v stands for v / 100.  Weights are filled with whole numbers,   *)
(* so products with them are exact; means, normalisations and products of  *)
(* two values are rounded to the nearest hundredth.                        *)
(***************************************************************************)
RECURSIVE SumSeq(_)
SumSeq(q) == IF q = <<>> THEN 0 ELSE Head(q) + SumSeq(Tail(q))

\* a / b for b > 0, rounded to the nearest integer.
RoundDiv(a, b) == (2 * a + b) \div (2 * b)

RECURSIVE IsqrtFrom(_, _)
IsqrtFrom(n, r) ==
    LET r1 == (r + n \div r) \div 2
    IN  IF r1 >= r THEN r ELSE IsqrtFrom(n, r1)

Isqrt(n) == IF n <= 0 THEN 0 ELSE IsqrtFrom(n, n)

\* A function tabulated at the whole numbers lo..hi (knots[1] is its value
\* at lo) and interpolated linearly between them.
Interpolate(knots, lo, v) ==
    LET k == v \div 100
        f == v % 100
        a == knots[k - lo + 1]
    IN  IF f = 0 THEN a ELSE a + ((knots[k - lo + 2] - a) * f) \div 100

\* nn.GELU: v * Phi(v); v itself from 3 on and 0 below -3, to two decimals.
Gelu(v) ==
    IF v >= 300 THEN v
    ELSE IF v <= -300 THEN 0
    ELSE Interpolate(<<0, -5, -16, 0, 84, 195, 300>>, -3, v)

\* nn.ReLU
Relu(v) == Max(v, 0)

\* nn.Sigmoid on float32: exactly 1.0 from 18 on (1 + exp(-z) rounds to 1)
\* and exactly 0.0 from -104 down (exp(-z) overflows); strictly between 0
\* and 1 elsewhere, which two decimals keep as 0.01 .. 0.99.
SigmoidFloat(z) ==
    IF z >= 1800 THEN 100
    ELSE IF z <= -10400 THEN 0
    ELSE IF z >= 500 THEN 99
    ELSE IF z <= -500 THEN 1
    ELSE Interpolate(<<1, 2, 5, 12, 27, 50, 73, 88, 95, 98, 99>>, -5, z)

\* nn.GELU and nn.ReLU on a tensor, element by element.
GeluData(t) ==
    [shape |-> t.shape, data |-> Eager([i \in 1..Len(t.data) |-> Gelu(t.data[i])])]

ReluData(t) ==
    [shape |-> t.shape, data |-> Eager([i \in 1..Len(t.data) |-> Relu(t.data[i])])]

\* The elements of channel c of sample b, which are contiguous.
ChannelSlice(t, b, c) ==
    LET S == Prod(Spatial(t.shape))
    IN  SubSeq(t.data, (b * t.shape[2] + c) * S + 1, (b * t.shape[2] + c + 1) * S)

\* nn.AdaptiveAvgPool1d(1) / nn.AdaptiveAvgPool2d(1): pooled[b + 1][c + 1].
AdaptiveAvgPool(t) ==
    Eager([b \in 1..t.shape[1] |->
        Eager([c \in 1..t.shape[2] |->
            RoundDiv(SumSeq(ChannelSlice(t, b - 1, c - 1)),
                     Prod(Spatial(t.shape)))])])

\* Width of the bottleneck of a gate.
GateHidden(g) == IF g.op = "GNA" THEN g.fc[1].cout ELSE g.fc[1].fout

\* self.fc of a gate on one pooled row y: squeeze (the weight filled with
\* p.fc1), GELU, excite (row c of the weight filled with p.fc2[c]), sigmoid.
\* Neither transform has a bias.
SqueezeExcite(g, p, y) ==
    LET hidden == Gelu(p.fc1 * SumSeq(y))
    IN  Eager([c \in 1..Len(y) |->
                 SigmoidFloat(p.fc2[c] * GateHidden(g) * hidden)])

\* The gate added to the input instead of scaling it.
ExpandMul_Add(t, y) ==
    [shape |-> t.shape,
     data  |-> Eager([i \in 1..Len(t.data) |->
                  LET n == Unravel(i - 1, t.shape)
                  IN  t.data[i] + y[n[1] + 1][n[2] + 1]])]

\* x * y.expand_as(x): y has one value per (sample, channel).
ExpandMul(t, y) ==
    [shape |-> t.shape,
     data  |-> Eager([i \in 1..Len(t.data) |->
                  LET n == Unravel(i - 1, t.shape)
                  IN  RoundDiv(t.data[i] * y[n[1] + 1][n[2] + 1], 100)])]

GateValues(g, p, t) ==
    LET pooled == AdaptiveAvgPool(t)
    IN  Eager([b \in 1..t.shape[1] |-> SqueezeExcite(g, p, pooled[b])])

ResLayer_forward(g, p, t) ==
    IF GateShape(g, t.shape).err # "" THEN Thrown(GateShape(g, t.shape).err)
    ELSE Returned(ExpandMul(t, GateValues(g, p, t)))

GNA_forward(g, p, t) ==
    IF GateShape(g, t.shape).err # "" THEN Thrown(GateShape(g, t.shape).err)
    ELSE Returned(ExpandMul(t, GateValues(g, p, t)))

\* Input position m lies under the kernel at output position n (positions
\* are index tuples over the spatial axes).
InField(l, n, m) ==
    \A d \in 1..Len(m) :
        /\ m[d] + l.p - n[d] * l.s >= 0
        /\ m[d] + l.p - n[d] * l.s < l.k

\* nn.Conv1d / nn.Conv2d with every weight equal to p.w and every bias
\* equal to p.b (whole numbers; p.b is 0 for bias=False).  Padding is zero.
\* With equal weights every output channel holds, at a position, p.w times
\* the sum over the input channels and the kernel window, plus the bias.
ConvData(l, p, t) ==
    LET sh   == ConvShape(l, t.shape).shape
        sin  == Spatial(t.shape)
        sout == Spatial(sh)
        C    == t.shape[2]
        across == Eager([b \in 1..t.shape[1] |->
                     Eager([q \in 1..Prod(sin) |->
                        SumSeq([c \in 1..C |->
                                  t.data[((b - 1) * C + c - 1) * Prod(sin) + q]])])])
        window == Eager([b \in 1..t.shape[1] |->
                     Eager([o \in 1..Prod(sout) |->
                        p.w * SumSeq([q \in 1..Prod(sin) |->
                                        IF InField(l, Unravel(o - 1, sout),
                                                   Unravel(q - 1, sin))
                                        THEN across[b][q] ELSE 0])
                        + p.b * 100])])
    IN [shape |-> sh,
        data  |-> Eager([i \in 1..Prod(sh) |->
                     window[((i - 1) \div (sh[2] * Prod(sout))) + 1]
                           [((i - 1) % Prod(sout)) + 1]])]

RECURSIVE ChannelValues(_, _, _)
ChannelValues(t, c, b) ==
    IF b >= t.shape[1] THEN <<>>
    ELSE ChannelSlice(t, b, c) \o ChannelValues(t, c, b + 1)

\* nn.BatchNorm1d / nn.BatchNorm2d as constructed (weight 1, bias 0,
\* running_mean 0, running_var 1, eps 1e-5).  In training mode a channel is
\* normalised by its own mean and (biased) variance; a constant channel
\* becomes exactly 0.  In eval mode it is divided by sqrt(1 + eps).
BatchNormData(l, t, tr) ==
    LET stat == Eager([c \in 1..t.shape[2] |->
                   LET v    == ChannelValues(t, c - 1, 0)
                       n    == Len(v)
                       s1   == SumSeq(v)
                       s2   == SumSeq([i \in 1..n |-> v[i] * v[i]])
                   IN  [mean |-> RoundDiv(s1, n),
                        var  |-> RoundDiv(n * s2 - s1 * s1, n * n)]])
    IN [shape |-> t.shape,
        data  |-> Eager([i \in 1..Len(t.data) |->
                     LET st == stat[Unravel(i - 1, t.shape)[2] + 1]
                         v  == t.data[i]
                     IN  IF ~tr THEN v - RoundDiv(v, 200000)
                         ELSE IF st.var = 0 THEN 316 * (v - st.mean)
                         ELSE RoundDiv(100 * (v - st.mean), Isqrt(st.var))])]

\* a += r, r broadcast to the shape of a.
AddInto(a, r) ==
    [shape |-> a.shape,
     data  |-> Eager([i \in 1..Len(a.data) |->
                  LET n == Unravel(i - 1, a.shape)
                  IN  a.data[i] + At(r, [d \in 1..Len(n) |->
                                           IF r.shape[d] = 1 THEN 0 ELSE n[d]])])]

NoBias(w) == [w |-> w, b |-> 0]

\* downsample(x): the 1x1 strided convolution and its batch norm.
Downsample(b, p, t, tr) ==
    BatchNormData(b.downsample[2], ConvData(b.downsample[1], p.downsample, t), tr)

\* The block with the wrong gating order: the gate applied to the sum, not
\* to the main branch before the add.
ResBasicBlock_forward_GateAfterAdd(b, p, t, tr) ==
    LET r  == ResBasicBlock_shape(b, t.shape, tr)
        o1 == GeluData(BatchNormData(b.bn1, ConvData(b.conv1, p.conv1, t), tr))
        o2 == BatchNormData(b.bn2, ConvData(b.conv2, p.conv2, o1), tr)
        residual == IF b.downsample # None THEN Downsample(b, p, t, tr) ELSE t
        o3 == ResLayer_forward(b.reslayer, p.reslayer, AddInto(o2, residual)).t
    IN  IF r.err # "" THEN Thrown(r.err)
        ELSE Returned(GeluData(o3))

ResBasicBlock_forward(b, p, t, tr) ==
    LET r  == ResBasicBlock_shape(b, t.shape, tr)
        o1 == GeluData(BatchNormData(b.bn1, ConvData(b.conv1, p.conv1, t), tr))
        o2 == BatchNormData(b.bn2, ConvData(b.conv2, p.conv2, o1), tr)
        o3 == ResLayer_forward(b.reslayer, p.reslayer, o2).t
        residual == IF b.downsample # None THEN Downsample(b, p, t, tr) ELSE t
    IN  IF r.err # "" THEN Thrown(r.err)
        ELSE Returned(GeluData(AddInto(o3, residual)))

BasicBlock_forward(b, p, t, tr) ==
    LET r  == BasicBlock_shape(b, t.shape, tr)
        o1 == ReluData(BatchNormData(b.bn1, ConvData(b.conv1, p.conv1, t), tr))
        o2 == BatchNormData(b.bn2, ConvData(b.conv2, p.conv2, o1), tr)
        identity == IF b.downsample # None THEN Downsample(b, p, t, tr) ELSE t
    IN  IF r.err # "" THEN Thrown(r.err)
        ELSE Returned(ReluData(AddInto(o2, identity)))

(***************************************************************************)
(* Signal segment representation.                                          *)
(***************************************************************************)
\* Python round(num / den) for num >= 0: to the nearest whole number, a tie
\* to the even one.
PyRound(num, den) ==
    LET q == num \div den
        r == num % den
    IN  IF 2 * r < den THEN q
        ELSE IF 2 * r > den THEN q + 1
        ELSE IF q % 2 = 0 THEN q ELSE q + 1

\* round() in the place of int().
IntTrunc_Round(num, den) == PyRound(num, den)

\* Overlap rates are exact binary fractions <<num, den>>, for which the
\* float product segment_size * overlapping_rate and the float difference
\* are exact; int() truncates toward zero.
IntTrunc(num, den) ==
    IF num >= 0 THEN num \div den ELSE 0 - ((0 - num) \div den)

SignalSegmentDefinition_init(kernel_size, stride) ==
    [op |-> "SignalSegmentDefinition", kernel_size |-> kernel_size, stride |-> stride]

AfrReducedCnnSize == 30

SignalSegmentRepresentation_init(segment_size, overlapping_rate, segment_num) ==
    LET overlapping ==
            IntTrunc(segment_size * overlapping_rate[2]
                       - segment_size * overlapping_rate[1],
                     overlapping_rate[2])
        gna == GNA_init(segment_num, DefaultGateReduction)
    IN  IF gna.err # "" THEN Failed(gna.err)
        ELSE Built([op |-> "SignalSegmentRepresentation",
                    overlapping |-> overlapping,
                    segment |-> SignalSegmentDefinition_init(<<1, segment_size>>,
                                                             overlapping),
                    segment2vec |-> SignalSegment2Vec_init(AfrReducedCnnSize),
                    gna |-> gna.m])

\* f.unfold refuses a stride that is not positive and a window longer than
\* the signal; the result (B, K, 1, D) lists the windows by start offset.
SignalSegmentDefinition_forward(seg, t) ==
    IF seg.stride <= 0 \/ t.shape[4] < seg.kernel_size[2] THEN Thrown("RuntimeError")
    ELSE Returned(unsqueeze(permute(unfold(t, seg.kernel_size[2], seg.stride),
                                    <<0, 2, 1>>), -2))

\* The encoder is a learned map.  What it returns for sample b is a function
\* of the weights and of its input: of sample b's window in eval mode, of the
\* whole batch of windows in training mode (batch statistics).  An output
\* element is the term <<source, channel, position>>.
EncoderSource(data, b, tr) ==
    IF tr THEN <<data.data, b>>
    ELSE SubSeq(data.data, b * Prod(Tail(data.shape)) + 1,
                (b + 1) * Prod(Tail(data.shape)))

SignalSegment2Vec_forward(enc, data, tr) ==
    LET r == SignalSegment2Vec_shape(enc, data.shape, tr)
    IN  IF r.err # "" THEN Thrown(r.err)
        ELSE Returned([shape |-> r.shape,
                       data  |-> Eager([i \in 1..Prod(r.shape) |->
                                    LET n == Unravel(i - 1, r.shape)
                                    IN  <<EncoderSource(data, n[1], tr), n[2], n[3]>>])])

\* The for loop of SignalSegmentRepresentation.forward from idx on: acc is
\* signal_segments so far.  x[:, idx, :] needs a 3-axis tensor.
RECURSIVE EncodeSegments(_, _, _, _, _)
EncodeSegments(m, xs, idx, acc, tr) ==
    IF idx >= xs.shape[2] THEN [err |-> "", list |-> acc]
    ELSE IF Len(xs.shape) # 3 THEN [err |-> "IndexError", list |-> acc]
    ELSE LET data == unsqueeze(select1(xs, idx), 1)
             e    == SignalSegment2Vec_forward(m.segment2vec, data, tr)
         IN  IF e.err # "" THEN [err |-> e.err, list |-> acc]
             ELSE EncodeSegments(m, xs, idx + 1,
                                 Append(acc, view3(e.t, xs.shape[1])), tr)

PermuteShape(shape, perm) == [d \in 1..Len(perm) |-> shape[perm[d] + 1]]

\* [err, segments, signal_segments, size]: the exception raised, the size
\* of the windows self.segment returned, the stacked feature map handed to
\* the global node attention, and the size of the tensor returned.  The
\* values behind the gate are those of GNA_forward.
SignalSegmentRepresentation_forward(m, t, tr) ==
    LET seg == SignalSegmentDefinition_forward(m.segment, t)
        xs  == squeeze(seg.t)
        enc == EncodeSegments(m, xs, 0, <<>>, tr)
        ss  == unsqueeze(cat1(enc.list), 2)
        g   == GateShape(m.gna, ss.shape)
        bad(e) == [err |-> e, segments |-> seg.t.shape,
                   signal_segments |-> NoTensor, size |-> <<>>]
    IN  IF seg.err # "" THEN bad(seg.err)
        ELSE IF Len(xs.shape) < 2 THEN bad("IndexError")
        ELSE IF enc.err # "" THEN bad(enc.err)
        ELSE IF g.err # "" THEN bad(g.err)
        ELSE [err |-> "", segments |-> seg.t.shape, signal_segments |-> ss,
              size |-> PermuteShape(g.shape, <<0, 2, 1, 3>>)]

(***************************************************************************)
(* Inputs of the representation.                                           *)
(***************************************************************************)
MaxBatch == 2
SegmentSizes == {1, 2, 3, 5, 10, 30, 96, 97}
OverlapRates == {<<0, 1>>, <<1, 8>>, <<1, 2>>, <<3, 4>>}
SegmentNums == {2, 3}
SignalPeriods == {2}

\* Raw lengths around the configured window: one short of a window, exactly
\* one window, two windows, two windows and a remainder, three windows.
RawLengths(m) ==
    LET W == m.segment.kernel_size[2]
        s == Max(m.segment.stride, 1)
    IN  {L \in {W - 1, W, W + s, W + s + 1, W + 2 * s} : L >= 1}

\* A raw batch (B, 1, 1, L): sample b holds (i + b) mod period at offset i.
RawSignal(B, L, period) ==
    [shape |-> <<B, 1, 1, L>>,
     data  |-> Eager([i \in 1..(B * L) |-> (((i - 1) % L) + ((i - 1) \div L)) % period])]

Init ==
    /\ pc = "new"
    /\ config = NoConfig
    /\ self = NoModule
    /\ training = TRUE
    /\ params = NoParams
    /\ x = NoTensor
    /\ locals = NoLocals
    /\ out = NoTensor
    /\ err = ""

RepConstruct ==
    /\ pc = "new"
    /\ \E W \in SegmentSizes, r \in OverlapRates, n \in SegmentNums :
         LET c == SignalSegmentRepresentation_init(W, r, n)
         IN  /\ config' = [class |-> "SignalSegmentRepresentation",
                            segment_size |-> W, overlapping_rate |-> r,
                            segment_num |-> n]
             /\ self' = c.m
             /\ err' = c.err
             /\ pc' = IF c.err = "" THEN "constructed" ELSE "failed"
    /\ UNCHANGED <<params, training, x, locals, out>>

\* nn.Module.eval()
Eval ==
    /\ pc = "constructed"
    /\ training
    /\ training' = FALSE
    /\ UNCHANGED <<pc, config, self, params, x, locals, out, err>>

RepForward ==
    /\ pc = "constructed"
    /\ self.op = "SignalSegmentRepresentation"
    /\ \E B \in 1..MaxBatch, L \in RawLengths(self), p \in SignalPeriods :
         LET t == RawSignal(B, L, p)
             r == SignalSegmentRepresentation_forward(self, t, training)
         IN  /\ x' = t
             /\ err' = r.err
             /\ locals' = [kind |-> "representation",
                            segments |-> r.segments,
                            signal_segments |-> r.signal_segments]
             /\ out' = [shape |-> r.size, data |-> <<>>]
             /\ pc' = IF r.err = "" THEN "done" ELSE "raised"
    /\ UNCHANGED <<config, self, params, training>>


(***************************************************************************)
(* The gates on their own.                                                 *)
(***************************************************************************)
GateChannels == {2, 3, 4}
Reductions == {-1, 0, 1, 2}
WeightFills == {-4, 0, 1, 8}
GateLengths == {1, 2}
GateInputs == {0, 1, 2}

\* The fills of the excite weight: even rows a, odd rows b.
ExciteFill(channel, a, b) == [c \in 1..channel |-> IF c % 2 = 1 THEN a ELSE b]

\* Element (b, c, l) of input k is a whole number in -2 .. 2.
GateInput(shape, k) ==
    [shape |-> shape,
     data  |-> Eager([i \in 1..Prod(shape) |-> (((i * (k + 1) + k) % 5) - 2) * 100])]

GateConstruct ==
    /\ pc = "new"
    /\ \E class \in {"ResLayer", "GNA"}, channel \in GateChannels,
          reduction \in Reductions, w1 \in WeightFills, a \in WeightFills,
          b \in WeightFills :
         LET c == IF class = "GNA" THEN GNA_init(channel, reduction)
                  ELSE ResLayer_init(channel, reduction)
         IN  /\ config' = [class |-> class, channel |-> channel,
                            reduction |-> reduction]
             /\ self' = c.m
             /\ err' = c.err
             /\ params' = IF c.err = ""
                          THEN [kind |-> "gate", fc1 |-> w1,
                                fc2 |-> ExciteFill(channel, a, b)]
                          ELSE NoParams
             /\ pc' = IF c.err = "" THEN "constructed" ELSE "failed"
    /\ UNCHANGED <<training, x, locals, out>>

GateForward ==
    /\ pc = "constructed"
    /\ self.op \in {"ResLayer", "GNA"}
    /\ \E B \in 1..MaxBatch, L \in GateLengths, k \in GateInputs :
         LET t == GateInput(IF self.op = "GNA" THEN <<B, self.channel, 1, L>>
                            ELSE <<B, self.channel, L>>, k)
             r == IF self.op = "GNA" THEN GNA_forward(self, params, t)
                  ELSE ResLayer_forward(self, params, t)
         IN  /\ x' = t
             /\ err' = r.err
             /\ out' = r.t
             /\ pc' = IF r.err = "" THEN "done" ELSE "raised"
    /\ UNCHANGED <<config, self, params, training, locals>>

GateNext == GateConstruct \/ GateForward

SpecGate == Init /\ [][GateNext]_vars

\* The representation and the construction of its gates.
RepNext == RepConstruct \/ GateConstruct \/ Eval \/ RepForward

SpecRep == Init /\ [][RepNext]_vars

(***************************************************************************)
(* The residual blocks on their own, built by the _make_layer of their     *)
(* network.                                                                *)
(***************************************************************************)
BlockCounts == {1, 2}
Planes1d == {4, 8}
Planes2d == {1, 2}
Strides == {1, 2}
BlockLengths == {1, 2, 4}
BlockSides == {1, 2, 3}
BlockInputs == {0, 1}
\* Fills <<conv1, conv2>> of the two convolutions: <<weight, bias>> each for
\* the Conv1d of the 1D block, the weight for the Conv2d (bias=False) of the
\* 2D block.
ConvFills1d == {<<<<0, 0>>, <<0, 0>>>>, <<<<0, 0>>, <<1, 0>>>>,
                <<<<1, 1>>, <<1, 0>>>>, <<<<0, 1>>, <<0, 0>>>>}
ConvFills2d == {<<0, 0>>, <<0, 1>>, <<1, 0>>, <<1, 1>>}

BlockConstruct1d ==
    /\ pc = "new"
    /\ \E inplanes \in Planes1d, planes \in Planes1d, stride \in Strides,
          blocks \in BlockCounts, c \in ConvFills1d :
         LET made == SignalSegment2Vec_make_layer(inplanes, planes, blocks, stride)
         IN  /\ config' = [class |-> "ResBasicBlock", inplanes |-> inplanes,
                            planes |-> planes, stride |-> stride,
                            blocks |-> blocks]
             /\ self' = made.layers[blocks]
             /\ params' = [kind |-> "block",
                           conv1 |-> [w |-> c[1][1], b |-> c[1][2]],
                           conv2 |-> [w |-> c[2][1], b |-> c[2][2]],
                           reslayer |-> [kind |-> "gate", fc1 |-> 1,
                                         fc2 |-> ExciteFill(planes, 1, -4)],
                           downsample |-> NoBias(1)]
    /\ pc' = "constructed"
    /\ UNCHANGED <<training, x, locals, out, err>>

BlockConstruct2d ==
    /\ pc = "new"
    /\ \E in_planes \in Planes2d, planes \in Planes2d, stride \in Strides,
          blocks \in BlockCounts, c \in ConvFills2d :
         LET made == ResNet_make_layer(in_planes, planes, blocks, stride)
         IN  /\ config' = [class |-> "BasicBlock", inplanes |-> in_planes,
                            planes |-> planes, stride |-> stride,
                            blocks |-> blocks]
             /\ self' = made.layers[blocks]
             /\ params' = [kind |-> "block",
                           conv1 |-> NoBias(c[1]),
                           conv2 |-> NoBias(c[2]),
                           downsample |-> NoBias(1)]
    /\ pc' = "constructed"
    /\ UNCHANGED <<training, x, locals, out, err>>

BlockInput(shape, k) ==
    [shape |-> shape,
     data  |-> Eager([i \in 1..Prod(shape) |-> (((i * (k + 2) + k) % 5) - 2) * 100])]

BlockForward1d ==
    /\ pc = "constructed"
    /\ self.op = "ResBasicBlock"
    /\ \E B \in 1..MaxBatch, L \in BlockLengths, k \in BlockInputs :
         LET t == BlockInput(<<B, self.conv1.cin, L>>, k)
             r == ResBasicBlock_forward(self, params, t, training)
         IN  /\ x' = t
             /\ locals' = [kind |-> "block"] @@
                          ResBasicBlock_branches(self, t.shape, training)
             /\ err' = r.err
             /\ out' = r.t
             /\ pc' = IF r.err = "" THEN "done" ELSE "raised"
    /\ UNCHANGED <<config, self, params, training>>

BlockForward2d ==
    /\ pc = "constructed"
    /\ self.op = "BasicBlock"
    /\ \E B \in 1..MaxBatch, H \in BlockSides, k \in BlockInputs :
         LET t == BlockInput(<<B, self.conv1.cin, H, H>>, k)
             r == BasicBlock_forward(self, params, t, training)
         IN  /\ x' = t
             /\ locals' = [kind |-> "block"] @@
                          BasicBlock_branches(self, t.shape, training)
             /\ err' = r.err
             /\ out' = r.t
             /\ pc' = IF r.err = "" THEN "done" ELSE "raised"
    /\ UNCHANGED <<config, self, params, training>>

BlockNext ==
    BlockConstruct1d \/ BlockConstruct2d \/ Eval \/ BlockForward1d \/ BlockForward2d

SpecBlock == Init /\ [][BlockNext]_vars

(***************************************************************************)
(* The 2D residual network.                                                *)
(***************************************************************************)
StemPlanes == 64
StageWidths == <<64, 128, 256, 512>>
StageStrides == <<1, 2, 2, 2>>
Fc1In == 200
MapSide == 32
HeadHidden == 256

\* ResNet.__init__ up to self.maxpool.
ResNet_init(channels, num_classes) ==
    [op |-> "ResNet",
     in_planes |-> StemPlanes,
     conv1 |-> Conv(2, channels, StemPlanes, 7, 2, 3, FALSE),
     bn1 |-> BatchNorm(2, StemPlanes),
     relu |-> ReLU,
     maxpool |-> MaxPool(2, 3, 2, 1),
     layer |-> <<>>,
     fc1 |-> <<>>,
     fc2 |-> <<>>]

\* self.layerN = self._make_layer(block, width, layers[N-1], stride) for the
\* next N: layer[N] is self.layerN.
ResNet_init_layer(m, layers) ==
    LET n    == Len(m.layer) + 1
        made == ResNet_make_layer(m.in_planes, StageWidths[n], layers[n],
                                  StageStrides[n])
    IN  [m EXCEPT !.in_planes = made.in_planes,
                  !.layer = Append(@, made.layers)]

\* ResNet.__init__ from self.avgpool on.
ResNet_init_heads(m, num_classes) ==
    [m EXCEPT !.fc1 = <<Linear(Fc1In, MapSide * MapSide), GELU>>,
              !.fc2 = <<Linear(StageWidths[4], HeadHidden), GELU,
                        Linear(HeadHidden, num_classes)>>]

\* x.view(x.size()[0], x.size()[1], 32, 32)
ViewAsMap(shape) ==
    IF Len(shape) < 2 THEN Raise("IndexError")
    ELSE IF Prod(shape) # shape[1] * shape[2] * MapSide * MapSide
    THEN Raise("RuntimeError")
    ELSE Ok(<<shape[1], shape[2], MapSide, MapSide>>)

\* self.avgpool without the flatten that follows it.
PoolAndFlatten_NoFlatten(r) ==
    IF r.err # "" THEN r ELSE Ok(<<r.shape[1], r.shape[2], 1, 1>>)

\* self.avgpool (to 1x1) followed by torch.flatten(x, 1).
PoolAndFlatten(r) ==
    IF r.err # "" THEN r ELSE Ok(<<r.shape[1], r.shape[2]>>)

\* ResNet.forward on the size of x; log_softmax keeps the size.
ResNet_forward(m, shape, tr) ==
    LET unsq   == SubSeq(shape, 1, Len(shape) - 1) \o <<1, shape[Len(shape)]>>
        fc1    == ShapeThrough(m.fc1, Ok(unsq), tr)
        viewed == IF fc1.err # "" THEN fc1 ELSE ViewAsMap(fc1.shape)
        trunk  == ShapeThrough(<<m.conv1, m.bn1, m.relu, m.maxpool>>
                                 \o m.layer[1] \o m.layer[2]
                                 \o m.layer[3] \o m.layer[4],
                               viewed, tr)
    IN  ShapeThrough(m.fc2, PoolAndFlatten(trunk), tr)

ChannelCounts == {1, 3}
ClassCounts == {2, 18}
InputWidths == {199, 200}

NetConstruct ==
    /\ pc = "new"
    /\ \E layers \in [1..4 -> BlockCounts], channels \in ChannelCounts,
          num_classes \in ClassCounts :
         /\ config' = [class |-> "ResNet", layers |-> layers,
                        channels |-> channels, num_classes |-> num_classes]
         /\ self' = ResNet_init(channels, num_classes)
    /\ pc' = "building"
    /\ UNCHANGED <<params, training, x, locals, out, err>>

NetMakeLayer ==
    /\ pc = "building"
    /\ Len(self.layer) < 4
    /\ self' = ResNet_init_layer(self, config.layers)
    /\ UNCHANGED <<pc, config, params, training, x, locals, out, err>>

NetFinish ==
    /\ pc = "building"
    /\ Len(self.layer) = 4
    /\ self' = ResNet_init_heads(self, config.num_classes)
    /\ pc' = "constructed"
    /\ UNCHANGED <<config, params, training, x, locals, out, err>>

NetForward ==
    /\ pc = "constructed"
    /\ self.op = "ResNet"
    /\ \E B \in 1..MaxBatch, D \in InputWidths :
         LET r == ResNet_forward(self, <<B, config.channels, D>>, training)
         IN  /\ x' = [shape |-> <<B, config.channels, D>>, data |-> <<>>]
             /\ err' = r.err
             /\ out' = [shape |-> r.shape, data |-> <<>>]
             /\ pc' = IF r.err = "" THEN "done" ELSE "raised"
    /\ UNCHANGED <<config, self, params, training, locals>>

NetNext == NetConstruct \/ NetMakeLayer \/ NetFinish \/ Eval \/ NetForward

SpecNet == Init /\ [][NetNext]_vars

(***************************************************************************)
(* Properties of the 2D residual network.                                  *)
(***************************************************************************)
NetForwardRan == pc \in {"done", "raised"} /\ self.op = "ResNet"

\* C1, as stated: for every batch size B >= 1, B = 1 included, forward on an
\* input (B, channels, 200) returns a tensor of shape (B, num_classes).
C1_ShapeForEveryBatch ==
    (NetForwardRan /\ x.shape[3] = Fc1In)
        => /\ pc = "done"
           /\ out.shape = <<x.shape[1], config.num_classes>>

\* C1, amended: forward on an input (B, channels, 200) returns a tensor of
\* shape (B, num_classes) for every B >= 2, and for B = 1 in eval mode; for
\* B = 1 in training mode, the mode a module is constructed in, it raises
\* ValueError (the 1x1 feature map of layer4 leaves batch norm one value per
\* channel).
C1_ShapeByMode ==
    (NetForwardRan /\ x.shape[3] = Fc1In)
        => IF training /\ x.shape[1] = 1
           THEN pc = "raised" /\ err = "ValueError"
           ELSE /\ pc = "done"
                /\ err = ""
                /\ out.shape = <<x.shape[1], config.num_classes>>

C1_Witness ==
    /\ NetForwardRan
    /\ pc = "done"
    /\ x.shape = <<1, config.channels, Fc1In>>
    /\ ~training
    /\ out.shape = <<1, config.num_classes>>

\* The width of the stage before stage n (the stem for the first).
IncomingWidth(n) == IF n = 1 THEN StemPlanes ELSE StageWidths[n - 1]

\* C10: after __init__ with block counts layers, stage n has layers[n]
\* blocks; a block has a downsample branch exactly when it is the first
\* block of a stage whose stride is not 1 or whose incoming width differs
\* from its own, which is exactly the first block of stages 2, 3 and 4; the
\* later blocks of a stage have stride 1; and each block's input channel
\* count is the output channel count of the block before it (of the stem
\* for the very first).
C10_StageStructure ==
    (self.op = "ResNet" /\ Len(self.layer) = 4)
        => \A n \in 1..4 :
             /\ Len(self.layer[n]) = config.layers[n]
             /\ \A k \in 1..Len(self.layer[n]) :
                  LET b == self.layer[n][k]
                  IN  /\ (b.downsample # None)
                           <=> (k = 1 /\ (StageStrides[n] # 1
                                           \/ IncomingWidth(n) # StageWidths[n]))
                      /\ (b.downsample # None) <=> (k = 1 /\ n >= 2)
                      /\ b.conv1.s = (IF k = 1 THEN StageStrides[n] ELSE 1)
                      /\ b.conv1.cin = (IF k > 1 THEN self.layer[n][k - 1].conv2.cout
                                        ELSE IF n = 1 THEN self.conv1.cout
                                        ELSE self.layer[n - 1][Len(self.layer[n - 1])].conv2.cout)
                      /\ b.conv2.cout = StageWidths[n]
                      /\ b.downsample # None
                           => /\ b.downsample[1].cin = b.conv1.cin
                              /\ b.downsample[1].cout = StageWidths[n]
                              /\ b.downsample[1].s = StageStrides[n]

C10_Witness ==
    /\ self.op = "ResNet"
    /\ pc = "constructed"
    /\ Len(self.layer) = 4
    /\ Len(self.layer[1]) = 2
    /\ Len(self.layer[3]) = 2
    /\ self.layer[1][1].downsample = None
    /\ self.layer[3][1].downsample # None
    /\ self.layer[3][2].downsample = None
    /\ self.layer[3][2].conv1.cin = 256

(***************************************************************************)
(* Properties of the gates.                                                *)
(***************************************************************************)
GateReturned == pc = "done" /\ self.op \in {"ResLayer", "GNA"}

\* Elements i of the slice of sample b, channel c (both 0-based).
SliceIndices(shape, b, c) ==
    LET S == Prod(Spatial(shape))
    IN  ((b * shape[2] + c) * S + 1)..((b * shape[2] + c + 1) * S)

\* Every element of sample b, channel c of the output is the input element
\* times one factor f taken from Factors (hundredths).
ScaledBy(Factors, b, c) ==
    \E f \in Factors :
        \A i \in SliceIndices(x.shape, b, c) :
            out.data[i] = RoundDiv(x.data[i] * f, 100)

NeverGrows == \A i \in 1..Len(x.data) : Abs(out.data[i]) <= Abs(x.data[i])

\* C6, as stated: the output of ResLayer and of GNA has the shape of the
\* input, equals the input scaled by one factor per (sample, channel), the
\* factor lies strictly between 0 and 1, and no element grows in magnitude.
C6_FactorStrictlyInside ==
    GateReturned
        => /\ out.shape = x.shape
           /\ Len(out.data) = Len(x.data)
           /\ \A b \in 0..(x.shape[1] - 1), c \in 0..(x.shape[2] - 1) :
                ScaledBy(1..99, b, c)
           /\ NeverGrows

\* C6, amended: the output of ResLayer and of GNA has the shape of the
\* input, equals the input scaled by one factor per (sample, channel), the
\* factor lies in the closed interval [0, 1] (the float32 sigmoid returns
\* exactly 0.0 and exactly 1.0 once it saturates), and no element grows in
\* magnitude.
C6_FactorInClosedUnit ==
    GateReturned
        => /\ out.shape = x.shape
           /\ Len(out.data) = Len(x.data)
           /\ \A b \in 0..(x.shape[1] - 1), c \in 0..(x.shape[2] - 1) :
                ScaledBy(0..100, b, c)
           /\ NeverGrows

\* A gate returned a channel unchanged (factor exactly 1) next to a channel
\* scaled strictly inside (0, 1).
C6_Witness ==
    /\ GateReturned
    /\ \E c \in 0..(x.shape[2] - 1) :
         /\ ~ScaledBy(0..99, 0, c)
         /\ ScaledBy({100}, 0, c)
    /\ \E c \in 0..(x.shape[2] - 1) :
         /\ ~ScaledBy({0, 100}, 0, c)
         /\ ScaledBy(1..99, 0, c)

(***************************************************************************)
(* Properties of the residual blocks.                                      *)
(***************************************************************************)
BlockForwardRan ==
    pc \in {"done", "raised"} /\ self.op \in {"ResBasicBlock", "BasicBlock"}

\* Both convolutions of the main branch are zero-initialised.
ZeroConvs ==
    /\ params.conv1 = [w |-> 0, b |-> 0]
    /\ params.conv2 = [w |-> 0, b |-> 0]

FinalNonlinearity(v) == IF self.op = "ResBasicBlock" THEN Gelu(v) ELSE Relu(v)

\* C5: with both main-branch convolutions zero and no downsample branch,
\* the block returns its final nonlinearity applied elementwise to its
\* input: GELU(x) for ResBasicBlock, ReLU(x) for BasicBlock.
C5_ZeroMainBranchIsSkip ==
    (BlockForwardRan /\ pc = "done" /\ ZeroConvs /\ self.downsample = None)
        => /\ out.shape = x.shape
           /\ Len(out.data) = Len(x.data)
           /\ \A i \in 1..Len(x.data) : out.data[i] = FinalNonlinearity(x.data[i])

\* A 1D block without downsample and with zero convolutions returned, on an
\* input that has negative and positive elements.
C5_Witness ==
    /\ BlockForwardRan
    /\ pc = "done"
    /\ self.op = "ResBasicBlock"
    /\ ZeroConvs
    /\ self.downsample = None
    /\ \E i \in 1..Len(x.data) : x.data[i] < 0 /\ out.data[i] = Gelu(x.data[i])
    /\ \E i \in 1..Len(x.data) : x.data[i] > 0 /\ out.data[i] = Gelu(x.data[i])

\* C9, as stated: for any stride >= 1 the main branch and the shortcut of
\* ResBasicBlock produce tensors of identical shape, so the residual add is
\* well defined.
C9_BranchesAgree ==
    (BlockForwardRan /\ self.op = "ResBasicBlock"
       /\ locals.main.err = "" /\ locals.residual.err = "")
        => /\ locals.main.shape = locals.residual.shape
           /\ pc = "done"

\* A block built with stride 2 met an input of length 4: the main branch is
\* 3 long, the shortcut 2, and the add raised.
C9_Witness ==
    /\ BlockForwardRan
    /\ self.op = "ResBasicBlock"
    /\ config.stride = 2
    /\ config.blocks = 1
    /\ x.shape[3] = 4
    /\ locals.main = Ok(<<x.shape[1], config.planes, 3>>)
    /\ locals.residual = Ok(<<x.shape[1], config.planes, 2>>)
    /\ pc = "raised"
    /\ err = "RuntimeError"

(***************************************************************************)
(* Properties of the signal segment representation and of construction.    *)
(***************************************************************************)
RepForwardRan ==
    pc \in {"done", "raised"} /\ self.op = "SignalSegmentRepresentation"

SegmentSize == config.segment_size
RateNum == config.overlapping_rate[1]
RateDen == config.overlapping_rate[2]
RawLength == x.shape[4]
\* The segmenter returned: its result is (B, K, 1, W).
Segmented == Len(locals.segments) = 4
SegmentCount == locals.segments[2]

\* The least whole number that is at least num / den.
Ceiling(num, den) == 0 - ((0 - num) \div den)

\* W - round(W * r), the stride as the claim states it.
RoundedStride == SegmentSize - PyRound(SegmentSize * RateNum, RateDen)
\* W - ceil(W * r), which is what int(W - W * r) leaves.
TruncatedStride == SegmentSize - Ceiling(SegmentSize * RateNum, RateDen)

\* C2, as stated: for W <= L the stride the constructor computes is
\* W - round(W * r) and the segmenter produces
\* K = floor((L - W) / (W - round(W * r))) + 1 segments.
C2_StrideByRounding ==
    (RepForwardRan /\ SegmentSize <= RawLength /\ RoundedStride >= 1)
        => /\ self.segment.stride = RoundedStride
           /\ Segmented
           /\ SegmentCount = (RawLength - SegmentSize) \div RoundedStride + 1

\* C2, amended: the stride the constructor computes is int(W - W * r), which
\* is W - ceil(W * r); when that stride is at least 1 and W <= L the
\* segmenter produces K = floor((L - W) / stride) + 1 windows of length W,
\* dropping windows that do not fully fit; when the stride is 0 or W > L
\* the segmenter raises RuntimeError.  L = 3000, W = 30, r = 0.5 gives
\* stride 15 and K = 199.
C2_StrideByTruncation ==
    /\ SignalSegmentRepresentation_init(30, <<1, 2>>, 199).m.segment.stride = 15
    /\ UnfoldBlocks(3000, 30,
                    SignalSegmentRepresentation_init(30, <<1, 2>>, 199).m.segment.stride)
         = 199
    /\ RepForwardRan
         => /\ self.segment.stride = TruncatedStride
            /\ self.segment.kernel_size = <<1, SegmentSize>>
            /\ IF TruncatedStride >= 1 /\ SegmentSize <= RawLength
               THEN /\ Segmented
                    /\ locals.segments =
                         <<x.shape[1],
                           (RawLength - SegmentSize) \div TruncatedStride + 1,
                           1, SegmentSize>>
               ELSE ~Segmented /\ pc = "raised" /\ err = "RuntimeError"

\* Two windows were cut with a stride that truncation and rounding compute
\* differently, and a remainder of the signal was dropped.
C2_Witness ==
    /\ RepForwardRan
    /\ Segmented
    /\ TruncatedStride # RoundedStride
    /\ SegmentCount = 2
    /\ RawLength > SegmentSize + TruncatedStride

\* C3, as stated: for every B >= 1 and K >= 1, B = 1 and K = 1 included,
\* forward returns a 4-axis tensor whose first axis is the batch axis.
C3_BatchAxisKept ==
    (RepForwardRan /\ Segmented /\ config.segment_num = SegmentCount
       /\ SegmentSize >= 2)
        => /\ pc = "done"
           /\ Len(out.shape) = 4
           /\ out.shape[1] = x.shape[1]

\* A batch of one signal, cut into as many windows as the module was built
\* for, left forward with IndexError.
C3_Witness ==
    /\ RepForwardRan
    /\ Segmented
    /\ x.shape[1] = 1
    /\ SegmentCount = config.segment_num
    /\ SegmentSize >= 2
    /\ pc = "raised"
    /\ err = "IndexError"

\* Window k of sample b: SegmentSize samples from offset k * stride.
Window(b, k) ==
    [w \in 1..SegmentSize |->
        x.data[b * RawLength + k * self.segment.stride + w]]

\* The k-th windows of the whole batch, sample after sample.
WindowBatch(k) ==
    [i \in 1..(x.shape[1] * SegmentSize) |->
        Window((i - 1) \div SegmentSize, k)[((i - 1) % SegmentSize) + 1]]

\* What an encoder output for sample b of window k is a function of.
WindowSource(b, k) == IF training THEN <<WindowBatch(k), b>> ELSE Window(b, k)

\* Row k of sample b of the stacked feature map.
FeatureRow(b, k) ==
    LET ss == locals.signal_segments
    IN  SubSeq(ss.data, (b * ss.shape[2] + k) * ss.shape[4] + 1,
               (b * ss.shape[2] + k + 1) * ss.shape[4])

Stacked == Len(locals.signal_segments.shape) = 4

Constructed == pc # "new"
IsGate == config.class \in {"ResLayer", "GNA"}
IsRepresentation == config.class = "SignalSegmentRepresentation"

\* C7, as stated: a gate with a non-positive reduction or with a channel
\* count that is not a multiple of the reduction, and a representation
\* whose window is not shorter than the raw signal, are rejected by the
\* constructor, so no forward pass ever meets them.
C7_RejectedAtConstruction ==
    /\ (Constructed /\ IsGate /\ config.reduction <= 0) => pc = "failed"
    /\ (Constructed /\ IsGate /\ config.reduction > 0
          /\ config.channel % Max(config.reduction, 1) # 0) => pc = "failed"
    /\ (Constructed /\ IsRepresentation
          /\ config.segment_num % DefaultGateReduction # 0) => pc = "failed"
    /\ RepForwardRan => SegmentSize < RawLength

\* C7, amended: the gate constructors reject exactly the non-positive
\* reductions (0 with ZeroDivisionError, a negative one with RuntimeError
\* for the negative width); a channel count that is not a multiple of the
\* reduction is accepted and the bottleneck width is floored (199 with
\* reduction 2 gives 99); the representation constructor does not know the
\* raw length and accepts every window length: W > L raises RuntimeError in
\* forward, W = L passes the segmenter with K = 1.
C7_OnlyNonPositiveReductionRejected ==
    /\ GNA_init(199, 2).err = ""
    /\ GateHidden(GNA_init(199, 2).m) = 99
    /\ ResLayer_init(199, 2).err = ""
    /\ GateHidden(ResLayer_init(199, 2).m) = 99
    /\ (Constructed /\ IsGate)
         => /\ (pc = "failed") <=> (config.reduction <= 0)
            /\ config.reduction = 0 => err = "ZeroDivisionError"
            /\ config.reduction < 0 => err = "RuntimeError"
            /\ config.reduction > 0
                 => /\ err = ""
                    /\ self.op = config.class
                    /\ GateHidden(self) = config.channel \div config.reduction
    /\ (Constructed /\ IsRepresentation)
         => /\ pc # "failed"
            /\ self.gna.channel = config.segment_num
            /\ GateHidden(self.gna) = config.segment_num \div DefaultGateReduction
    /\ (RepForwardRan /\ SegmentSize > RawLength)
         => pc = "raised" /\ err = "RuntimeError"
    /\ (RepForwardRan /\ SegmentSize = RawLength /\ self.segment.stride >= 1)
         => locals.segments = <<x.shape[1], 1, 1, SegmentSize>>

\* A GNA over 3 channels with reduction 2 was constructed, its bottleneck
\* one channel wide.
C7_Witness ==
    /\ pc = "constructed"
    /\ config.class = "GNA"
    /\ config.channel = 3
    /\ config.reduction = 2
    /\ GateHidden(self) = 1

\* C8, as stated: each row of the stacked feature map has exactly
\* afr_reduced_size entries, the encoder leaving length 1 of every window
\* it accepts.
C8_FeatureLengthIsAfrSize ==
    (RepForwardRan /\ Stacked)
        => locals.signal_segments.shape[4] = AfrReducedCnnSize

\* C8, amended: each row of the stacked feature map has 30 * L' entries,
\* L' = floor((W - 1) / 96) + 1 the length the encoder leaves of a window of
\* W samples; that is afr_reduced_size exactly when W <= 96.
C8_FeatureLengthByWindow ==
    (RepForwardRan /\ Stacked)
        => /\ locals.signal_segments.shape[4]
                = AfrReducedCnnSize * ((SegmentSize - 1) \div 96 + 1)
           /\ (locals.signal_segments.shape[4] = AfrReducedCnnSize)
                <=> (SegmentSize <= 96)

C8_Witness ==
    /\ RepForwardRan
    /\ Stacked
    /\ SegmentSize = 97
    /\ locals.signal_segments.shape[4] = 2 * AfrReducedCnnSize

====
